---- MODULE Spec2Model ----
(***************************************************************************)
(* Model of app.py (SimpleRealtimeChatbot): the message log, the intent   *)
(* detection and handlers, respond, the /chat endpoint, the               *)
(* ConnectionManager and the /ws/{session_id} endpoint.                   *)
(*                                                                        *)
(* Python str values that are searched with regular expressions (user     *)
(* messages, raw frames) are tuples of one-character strings; the fixed   *)
(* reply texts are never searched and are TLA+ strings.  An optional      *)
(* value (Python None or a value) is the empty tuple or a one-element     *)
(* tuple.                                                                  *)
(***************************************************************************)
EXTENDS Integers, Sequences, FiniteSets, TLC

\* ------------------------------------------------------------------ bounds
\* WebSocket connections opened in one run
MaxConns  == 2
\* frames the clients send, POST /chat requests and ticks of the clock in
\* one run
MaxEvents == 2
\* calls of the ConnectionManager methods when it is driven directly
MaxOps    == 5
\* pieces (words, separators) a text given to detect_intent is made of
MaxWords  == 3

Conns == 1..MaxConns
Calls == 1..MaxEvents

\* ------------------------------------------------------------ text values
Str_hi        == <<"h","i">>
Str_Hi        == <<"H","i">>
Str_no_signal == <<"n","o"," ","s","i","g","n","a","l">>
Str_xyz       == <<"x","y","z">>
Str_empty     == <<>>
\* {"message":"hi"}
Str_json_hi   == <<"{","\"","m","e","s","s","a","g","e","\"",":","\"","h","i","\"","}">>
\* {"a":1}
Str_json_a    == <<"{","\"","a","\"",":","1","}">>

Upper == <<"A","B","C","D","E","F","G","H","I","J","K","L","M",
           "N","O","P","Q","R","S","T","U","V","W","X","Y","Z">>
Lower == <<"a","b","c","d","e","f","g","h","i","j","k","l","m",
           "n","o","p","q","r","s","t","u","v","w","x","y","z">>
Digits == {"0","1","2","3","4","5","6","7","8","9"}
Whitespace == {" ", "\t", "\n", "\r"}

Range(f) == { f[i] : i \in DOMAIN f }

\* the class \w of the re module
IsWordChar(ch) == ch \in Range(Upper) \cup Range(Lower) \cup Digits \cup {"_"}

\* str.lower()
lower_char(ch) ==
    IF ch \in Range(Upper)
    THEN Lower[CHOOSE i \in DOMAIN Upper : Upper[i] = ch]
    ELSE ch

lower(text) == [i \in DOMAIN text |-> lower_char(text[i])]

\* str.strip()
strip(text) ==
    LET keep == { i \in DOMAIN text : text[i] \notin Whitespace }
    IN  IF keep = {} THEN <<>>
        ELSE LET first == CHOOSE i \in keep : \A j \in keep : i <= j
                 last  == CHOOSE i \in keep : \A j \in keep : j <= i
             IN  SubSeq(text, first, last)

\* \b between positions k-1 and k of text (positions outside text are not
\* word characters)
WordAt(text, k) == k \in DOMAIN text /\ IsWordChar(text[k])

boundary(text, k) == WordAt(text, k - 1) # WordAt(text, k)

\* re.search(r"\b(p1|p2|...)\b", text) is not None
re_search(phrases, text) ==
    \E p \in phrases :
        \E i \in 1..(Len(text) - Len(p) + 1) :
            /\ SubSeq(text, i, i + Len(p) - 1) = p
            /\ boundary(text, i)
            /\ boundary(text, i + Len(p))

NetworkPat ==
    { <<"s","i","g","n","a","l">>,
      <<"n","e","t","w","o","r","k">>,
      <<"n","o"," ","s","e","r","v","i","c","e">>,
      <<"c","o","v","e","r","a","g","e">>,
      <<"l","a","t","e","n","c","y">>,
      <<"s","l","o","w"," ","d","a","t","a">>,
      <<"d","r","o","p","p","e","d"," ","c","a","l","l">> }
AccountPat ==
    { <<"b","a","l","a","n","c","e">>,
      <<"p","l","a","n">>,
      <<"d","a","t","a"," ","l","e","f","t">>,
      <<"r","e","c","h","a","r","g","e">>,
      <<"t","o","p","-","u","p">>,
      <<"t","o","p"," ","u","p">>,
      <<"b","i","l","l">> }
SymptomPat ==
    { <<"s","y","m","p","t","o","m">>,
      <<"f","e","v","e","r">>,
      <<"c","o","u","g","h">>,
      <<"p","a","i","n">>,
      <<"h","e","a","d","a","c","h","e">>,
      <<"n","a","u","s","e","a">>,
      <<"s","h","o","r","t","n","e","s","s"," ","o","f"," ","b","r","e","a","t","h">> }
AppointmentPat ==
    { <<"a","p","p","o","i","n","t","m","e","n","t">>,
      <<"b","o","o","k"," ","a","p","p","o","i","n","t","m","e","n","t">>,
      <<"d","o","c","t","o","r">>,
      <<"v","i","s","i","t">>,
      <<"s","c","h","e","d","u","l","e">> }
GreetingPat ==
    { <<"h","i">>,
      <<"h","e","l","l","o">>,
      <<"h","e","y">>,
      <<"g","o","o","d"," ","m","o","r","n","i","n","g">>,
      <<"g","o","o","d"," ","e","v","e","n","i","n","g">> }
ThanksPat ==
    { <<"t","h","a","n","k">>,
      <<"t","h","a","n","k","s">> }
NoSignalPat ==
    { <<"n","o"," ","s","e","r","v","i","c","e">>,
      <<"n","o"," ","s","i","g","n","a","l">>,
      <<"n","o"," ","n","e","t","w","o","r","k">> }
SlowPat ==
    { <<"s","l","o","w">>,
      <<"l","a","t","e","n","c","y">>,
      <<"s","l","o","w"," ","d","a","t","a">> }
FeverPat ==
    { <<"f","e","v","e","r">>,
      <<"t","e","m","p","e","r","a","t","u","r","e">> }
SeverePat ==
    { <<"c","h","e","s","t"," ","p","a","i","n">>,
      <<"s","h","o","r","t","n","e","s","s"," ","o","f"," ","b","r","e","a","t","h">>,
      <<"s","e","v","e","r","e">>,
      <<"f","a","i","n","t">> }

\* detect_intent with the account rule tested before the network rule
detect_intent_account_first(text) ==
    LET t == strip(lower(text))
    IN  IF re_search(AccountPat, t)
        THEN [intent |-> "account_query", confidence |-> 90]
        ELSE IF re_search(NetworkPat, t)
        THEN [intent |-> "network_issue", confidence |-> 90]
        ELSE IF re_search(SymptomPat, t)
        THEN [intent |-> "symptom_check", confidence |-> 90]
        ELSE IF re_search(AppointmentPat, t)
        THEN [intent |-> "book_appointment", confidence |-> 90]
        ELSE IF re_search(GreetingPat, t)
        THEN [intent |-> "greeting", confidence |-> 95]
        ELSE IF re_search(ThanksPat, t)
        THEN [intent |-> "thanks", confidence |-> 95]
        ELSE [intent |-> "fallback", confidence |-> 50]

\* confidences are in hundredths (0.9 is 90)
detect_intent(text) ==
    LET t == strip(lower(text))
    IN  IF re_search(NetworkPat, t)
        THEN [intent |-> "network_issue", confidence |-> 90]
        ELSE IF re_search(AccountPat, t)
        THEN [intent |-> "account_query", confidence |-> 90]
        ELSE IF re_search(SymptomPat, t)
        THEN [intent |-> "symptom_check", confidence |-> 90]
        ELSE IF re_search(AppointmentPat, t)
        THEN [intent |-> "book_appointment", confidence |-> 90]
        ELSE IF re_search(GreetingPat, t)
        THEN [intent |-> "greeting", confidence |-> 95]
        ELSE IF re_search(ThanksPat, t)
        THEN [intent |-> "thanks", confidence |-> 95]
        ELSE [intent |-> "fallback", confidence |-> 50]

\* ---------------------------------------------------------------- handlers
NoSignalReply ==
    "I understand you're seeing no network signal. Try: 1) toggle airplane mode off/on, 2) restart your device, 3) check for network outages in your area. If the problem persists, reply with your area PIN or 'outage' to check further."
SlowDataReply ==
    "Slow data can be caused by congestion. Try switching between 4G/3G, closing background apps, or running a speed test. Want me to run a quick diagnostic?"
DescribeNetworkReply ==
    "Can you describe the network problem (e.g., no signal, slow data, dropped calls)?"
\* the rupee sign of the source is written Rs
AccountReply ==
    "Your current prepaid balance is Rs199.50. Would you like to recharge now?"
\* the degree sign of the source is written deg
FeverReply ==
    "I see you mentioned fever. If temperature > 38 deg C or you have breathing difficulty, seek urgent care. For mild fever, rest, fluids and paracetamol are common. Do you have other symptoms?"
SevereReply ==
    "These symptoms can be serious. If you are in immediate danger, please call emergency services now."
SymptomReply ==
    "Tell me more about your symptoms (how long, severity). I can help suggest next steps or book a tele-appointment."
AppointmentReply ==
    "I can help book an appointment. Which date/time and specialty do you prefer? Example: 'GP tomorrow morning' or 'Dermatology Nov 6 3pm'."
GreetingReply ==
    "Hello! I can help with mobile network support, account queries, or basic health triage. How can I help today?"
\* the dash of the source is written -
ThanksReply ==
    "You're welcome - anything else I can help with?"
FallbackReply ==
    "Sorry, I didn't quite get that. Could you rephrase? You can ask about 'network issue', 'check my balance', or 'I have a fever'."

\* handle_network_issue with the slow-data test before the no-signal test
handle_network_issue_slow_first(text) ==
    IF re_search(SlowPat, lower(text)) THEN SlowDataReply
    ELSE IF re_search(NoSignalPat, lower(text)) THEN NoSignalReply
    ELSE DescribeNetworkReply

handle_network_issue(text) ==
    IF re_search(NoSignalPat, lower(text)) THEN NoSignalReply
    ELSE IF re_search(SlowPat, lower(text)) THEN SlowDataReply
    ELSE DescribeNetworkReply

handle_account_query(text) == AccountReply

handle_symptom_check(text) ==
    IF re_search(FeverPat, lower(text)) THEN FeverReply
    ELSE IF re_search(SeverePat, lower(text)) THEN SevereReply
    ELSE SymptomReply

handle_book_appointment(text) == AppointmentReply

handle_greeting(text) == GreetingReply

handle_thanks(text) == ThanksReply

handle_fallback(text) == FallbackReply

\* the lookup written INTENT_HANDLERS[label]: a label that is no key raises
\* KeyError and there is no reply
INTENT_HANDLERS_subscript(label, text) ==
    CASE label = "network_issue"    -> handle_network_issue(text)
      [] label = "account_query"    -> handle_account_query(text)
      [] label = "symptom_check"    -> handle_symptom_check(text)
      [] label = "book_appointment" -> handle_book_appointment(text)
      [] label = "greeting"         -> handle_greeting(text)
      [] label = "thanks"           -> handle_thanks(text)
      [] label = "fallback"         -> handle_fallback(text)
      [] OTHER                      -> ""

\* INTENT_HANDLERS.get(label, handle_fallback)(text, context)
INTENT_HANDLERS(label, text) ==
    CASE label = "network_issue"    -> handle_network_issue(text)
      [] label = "account_query"    -> handle_account_query(text)
      [] label = "symptom_check"    -> handle_symptom_check(text)
      [] label = "book_appointment" -> handle_book_appointment(text)
      [] label = "greeting"         -> handle_greeting(text)
      [] label = "thanks"           -> handle_thanks(text)
      [] label = "fallback"         -> handle_fallback(text)
      [] OTHER                      -> handle_fallback(text)

\* ------------------------------------------------------------- message log
\* log_message written as an upsert on (session_id, role): the row of the
\* session and role, when there is one, is overwritten
log_message_upsert(rows, session_id, role, message, now) ==
    LET same == { i \in DOMAIN rows : /\ rows[i].session_id = session_id
                                      /\ rows[i].role = role }
    IN  IF same = {}
        THEN Append(rows,
                    [id         |-> IF rows = <<>> THEN 1 ELSE rows[Len(rows)].id + 1,
                     session_id |-> session_id,
                     role       |-> role,
                     message    |-> message,
                     timestamp  |-> now])
        ELSE [rows EXCEPT ![CHOOSE i \in same : TRUE] =
                 [@ EXCEPT !.message = message, !.timestamp = now]]

\* INSERT INTO messages: id is AUTOINCREMENT, timestamp is the instant read
\* by that call of log_message
log_message(rows, session_id, role, message, now) ==
    Append(rows,
           [id         |-> IF rows = <<>> THEN 1 ELSE rows[Len(rows)].id + 1,
            session_id |-> session_id,
            role       |-> role,
            message    |-> message,
            timestamp  |-> now])

\* respond with the two log_message calls in the other order
respond_bot_first(rows, message, session_id, fail, t1, t2, t3) ==
    LET intent == detect_intent(message)
        reply  == INTENT_HANDLERS(intent.intent, message)
        rows1  == log_message(rows, session_id, "bot", reply, t1)
    IN  IF fail = "user" THEN [log |-> rows, result |-> <<>>]
        ELSE IF fail = "bot" THEN [log |-> rows1, result |-> <<>>]
        ELSE [log    |-> log_message(rows1, session_id, "user", message, t2),
              result |-> <<[reply |-> reply, intent |-> intent, timestamp |-> t3]>>]

\* respond with each log_message call wrapped in try/except sqlite3.Error:
\* pass: a failed append is skipped and the envelope is returned all the same
respond_swallow(rows, message, session_id, fail, t1, t2, t3) ==
    LET rows1  == IF fail = "user" THEN rows
                  ELSE log_message(rows, session_id, "user", message, t1)
        intent == detect_intent(message)
        reply  == INTENT_HANDLERS(intent.intent, message)
        rows2  == IF fail = "bot" THEN rows1
                  ELSE log_message(rows1, session_id, "bot", reply, t2)
    IN  [log    |-> rows2,
         result |-> <<[reply |-> reply, intent |-> intent, timestamp |-> t3]>>]

\* respond(message, session_id).  fail names the log_message call whose
\* INSERT or commit raises sqlite3.Error ("none", "user", "bot"); t1, t2, t3
\* are the instants of the three datetime.utcnow() reads.  The value is the
\* log after the call and the returned envelope (no envelope: the call
\* raised).
respond(rows, message, session_id, fail, t1, t2, t3) ==
    IF fail = "user"
    THEN [log |-> rows, result |-> <<>>]
    ELSE LET rows1  == log_message(rows, session_id, "user", message, t1)
             intent == detect_intent(message)
             reply  == INTENT_HANDLERS(intent.intent, message)
         IN  IF fail = "bot"
             THEN [log |-> rows1, result |-> <<>>]
             ELSE [log    |-> log_message(rows1, session_id, "bot", reply, t2),
                   result |-> <<[reply     |-> reply,
                                 intent    |-> intent,
                                 timestamp |-> t3]>>]

\* ------------------------------------------------------------ inbound data
\* json.loads on the frames of this model: the decoded value, or no value
\* when it raises a decode error
json_loads(data) ==
    IF data = Str_json_hi
    THEN <<[type |-> "object", members |-> [message |-> Str_hi]]>>
    ELSE IF data = Str_json_a
    THEN <<[type |-> "object", members |-> [a |-> 1]]>>
    ELSE <<>>

\* lines 183-187: payload.get("message", "") or, on any exception, the frame
frame_message(data) ==
    LET payload == json_loads(data)
    IN  IF payload = <<>> THEN data
        ELSE IF payload[1].type # "object" THEN data
        ELSE IF "message" \in DOMAIN payload[1].members
             THEN payload[1].members.message
             ELSE Str_empty

\* frames a client sends
Frames == { Str_Hi, Str_json_a }

\* session ids of the path /ws/{session_id}
Sessions == { "s1", "s2" }

\* JSON bodies of POST /chat
Bodies ==
    { [message |-> Str_no_signal, session_id |-> "s1"],
      [message |-> Str_xyz] }

\* body.get("message", "") and body.get("session_id", "guest")
body_message(body) ==
    IF "message" \in DOMAIN body THEN body.message ELSE Str_empty

body_session_id(body) ==
    IF "session_id" \in DOMAIN body THEN body.session_id ELSE "guest"

LogFailures == { "none", "user", "bot" }

\* ------------------------------------------------------- ConnectionManager
\* connect written with setdefault: a registered handle is kept
connect_keep(conns, websocket, session_id) ==
    [s \in DOMAIN conns \cup {session_id} |->
        IF s \in DOMAIN conns THEN conns[s] ELSE websocket]

\* self.active_connections[session_id] = websocket
connect(conns, websocket, session_id) ==
    [s \in DOMAIN conns \cup {session_id} |->
        IF s = session_id THEN websocket ELSE conns[s]]

\* disconnect written with popitem for an absent id: some entry goes
disconnect_popitem(conns, session_id) ==
    IF session_id \in DOMAIN conns \/ DOMAIN conns = {}
    THEN [s \in DOMAIN conns \ {session_id} |-> conns[s]]
    ELSE [s \in DOMAIN conns \ {CHOOSE x \in DOMAIN conns : TRUE} |-> conns[s]]

\* self.active_connections.pop(session_id, None)
disconnect(conns, session_id) ==
    [s \in DOMAIN conns \ {session_id} |-> conns[s]]

\* send_personal_message with the test of ws inverted: nothing is ever sent
send_personal_message_never(conns, session_id) == <<>>

\* send_personal_message up to its await: the handle ws.send_text is called
\* on, or none
send_personal_message(conns, session_id) ==
    IF session_id \in DOMAIN conns THEN <<conns[session_id]>> ELSE <<>>

\* {"reply": f"Connected to SimpleRealtimeChatbot as {session_id}. Say hi!"}
WelcomeText(session_id) ==
    [reply |-> <<"Connected to SimpleRealtimeChatbot as ", session_id, ". Say hi!">>]

\* --------------------------------------------------------- texts of a turn
\* the pieces the texts are made of: a word of each rule of detect_intent,
\* phrases of the patterns of handle_network_issue, one of them in upper
\* case, a letter of no rule, and the characters that make a word boundary
Words ==
    { <<"s","i","g","n","a","l">>, <<"p","l","a","n">>, <<"p","a","i","n">>,
      <<"v","i","s","i","t">>, <<"h","i">>, <<"t","h","a","n","k","s">>,
      <<"n","o"," ","s","i","g","n","a","l">>,
      <<"N","O"," ","S","I","G","N","A","L">>,
      <<"s","l","o","w">>, <<"x">>, <<" ">>, <<"!">> }

RECURSIVE Join(_)
Join(ws) == IF ws = <<>> THEN <<>> ELSE Head(ws) \o Join(Tail(ws))

\* the texts of at most MaxWords pieces
Texts == { Join(ws) : ws \in UNION { [1..n -> Words] : n \in 0..MaxWords } }

\* the keys of INTENT_HANDLERS, and a label that is not a key
Registered ==
    { "network_issue", "account_query", "symptom_check", "book_appointment",
      "greeting", "thanks", "fallback" }

Labels == Registered \cup { "unknown" }

\* ------------------------------------------------------------------- state
VARIABLES
    active_connections, \* manager.active_connections: session id -> handle
    log,                \* rows of table messages, in id order
    clock,              \* last instant datetime.utcnow() returned
    pc,                 \* position of each websocket_endpoint task
    session_id,         \* path parameter of each connection ("" before open)
    open,               \* the transport of the connection is up
    inbox,              \* frames received by the server, not yet read
    sending,            \* ws.send_text call a task is suspended in
    result,             \* local variable result of each task
    error,              \* exception that left each task
    delivered,          \* frames each connection's client was sent
    calls,              \* POST /chat requests
    events,             \* number of events of the environment so far
    arrivals,           \* number of frames and requests that arrived so far
    connects,           \* connections in the order manager.connect took them
    ops,                \* direct calls of the manager's methods so far
    last,               \* the last direct call: method, session id, and the
                        \* handle registered for the id when it was made
    served,             \* arrivals in the order respond took them (conn 0:
                        \* a POST /chat request)
    turn                \* one text taken through detect_intent and the
                        \* handlers on its own, outside any endpoint

vars == <<active_connections, log, clock, pc, session_id, open, inbox,
          sending, result, error, delivered, calls, events, arrivals, connects, ops, last,
          served, turn>>

\* the application after the import of app.py
InitApp ==
    /\ active_connections = <<>>
    /\ log = <<>>
    /\ clock = 0
    /\ pc = [c \in Conns |-> "idle"]
    /\ session_id = [c \in Conns |-> ""]
    /\ open = [c \in Conns |-> FALSE]
    /\ inbox = [c \in Conns |-> <<>>]
    /\ sending = [c \in Conns |-> <<>>]
    /\ result = [c \in Conns |-> <<>>]
    /\ error = [c \in Conns |-> ""]
    /\ delivered = [c \in Conns |-> <<>>]
    /\ calls = [k \in Calls |-> [pc |-> "idle"]]
    /\ events = 0
    /\ arrivals = 0
    /\ connects = <<>>
    /\ ops = 0
    /\ last = [op |-> "none"]
    /\ served = <<>>

Init ==
    /\ InitApp
    /\ turn = [pc |-> "none"]

Running(c) == pc[c] \in {"send_welcome", "receive", "send_result"}

\* the instants (t1, t2, t3) of the utcnow() reads of one respond call when
\* the clock advances by at most adv until the call ends: the clock never
\* goes back, and a call that raises reads no further instant
Instants(fail, adv) ==
    { t \in (clock..(clock + adv)) \X (clock..(clock + adv)) \X (clock..(clock + adv)) :
        /\ t[1] <= t[2] /\ t[2] <= t[3]
        /\ fail = "user" => t[2] = t[1]
        /\ fail # "none" => t[3] = t[2] }

\* the place of a new ws.send_text call among the calls in progress on the
\* same handle: the transport writes the frames of one connection in the
\* order of the calls
Ticket(ws) ==
    LET waiting == { sending[d][1].ticket :
                       d \in { e \in Conns : /\ sending[e] # <<>>
                                              /\ sending[e][1].ws = ws } }
    IN  IF waiting = {} THEN 1
        ELSE 1 + CHOOSE n \in waiting : \A m \in waiting : m <= n

\* ------------------------------------------------- websocket_endpoint task
\* a client opens /ws/{s}: the task starts and suspends in websocket.accept()
\* (connections open in the order of their numbers, and the first as "s1":
\* handles and session ids are interchangeable)
Open(c, s) ==
    /\ pc[c] = "idle"
    /\ c = 1 => s = "s1"
    /\ \A d \in Conns : d < c => pc[d] # "idle"
    /\ pc' = [pc EXCEPT ![c] = "accept"]
    /\ session_id' = [session_id EXCEPT ![c] = s]
    /\ open' = [open EXCEPT ![c] = TRUE]
    /\ UNCHANGED <<active_connections, log, clock, inbox, sending, result,
                   error, delivered, calls, served, arrivals, connects,
                   events, ops, last, turn>>

\* websocket_endpoint with the welcome send_personal_message before
\* manager.connect: the welcome frame is looked up before the handle is
\* registered
Accept_welcome_first(c) ==
    /\ pc[c] = "accept"
    /\ LET ws == send_personal_message(active_connections, session_id[c])
       IN  /\ active_connections' = connect(active_connections, c, session_id[c])
           /\ connects' = Append(connects, c)
           /\ IF ws = <<>>
              THEN /\ pc' = [pc EXCEPT ![c] = "receive"]
                   /\ UNCHANGED sending
              ELSE /\ pc' = [pc EXCEPT ![c] = "send_welcome"]
                   /\ sending' = [sending EXCEPT ![c] =
                          <<[ws |-> ws[1], text |-> WelcomeText(session_id[c]),
                             ticket |-> Ticket(ws[1])]>>]
    /\ UNCHANGED <<log, clock, session_id, open, inbox, result, error,
                   delivered, calls, served, arrivals, events, ops, last,
                   turn>>

\* accept() returns: the handle is registered, the welcome frame is looked
\* up by session id and the task suspends in ws.send_text
Accept(c) ==
    /\ pc[c] = "accept"
    /\ LET registered == connect(active_connections, c, session_id[c])
           ws         == send_personal_message(registered, session_id[c])
       IN  /\ active_connections' = registered
           /\ connects' = Append(connects, c)
           /\ IF ws = <<>>
              THEN /\ pc' = [pc EXCEPT ![c] = "receive"]
                   /\ UNCHANGED sending
              ELSE /\ pc' = [pc EXCEPT ![c] = "send_welcome"]
                   /\ sending' = [sending EXCEPT ![c] =
                          <<[ws |-> ws[1], text |-> WelcomeText(session_id[c]),
                             ticket |-> Ticket(ws[1])]>>]
    /\ UNCHANGED <<log, clock, session_id, open, inbox, result, error,
                   delivered, calls, served, arrivals, events, ops, last,
                   turn>>

\* accept() raises because the client is gone: the exception is not a
\* WebSocketDisconnect and leaves the task
AcceptFault(c) ==
    /\ pc[c] = "accept"
    /\ ~open[c]
    /\ pc' = [pc EXCEPT ![c] = "raised"]
    /\ error' = [error EXCEPT ![c] = "RuntimeError"]
    /\ UNCHANGED <<active_connections, log, clock, session_id, open, inbox,
                   sending, result, delivered, calls, served, arrivals,
                   connects, events, ops, last, turn>>

\* the suspended ws.send_text completes: the frame goes to the client of ws,
\* after the frames of the earlier calls on ws (from: the task that sent
\* it, kept for the properties only)
SendDone(c) ==
    /\ pc[c] \in {"send_welcome", "send_result"}
    /\ LET p == sending[c][1]
       IN  /\ open[p.ws]
           /\ \A d \in Conns :
                 (sending[d] # <<>> /\ sending[d][1].ws = p.ws) =>
                     p.ticket <= sending[d][1].ticket
           /\ delivered' = [delivered EXCEPT ![p.ws] =
                  Append(@, [text |-> p.text, from |-> c])]
    /\ sending' = [sending EXCEPT ![c] = <<>>]
    /\ pc' = [pc EXCEPT ![c] = "receive"]
    /\ UNCHANGED <<active_connections, log, clock, session_id, open, inbox,
                   result, error, calls, served, arrivals, connects, events,
                   ops, last, turn>>

\* the suspended ws.send_text raises because the transport of ws is down:
\* WebSocketDisconnect (caught at line 191) or, depending on the server
\* library, another exception, which leaves the task
SendFault(c, exc) ==
    /\ pc[c] \in {"send_welcome", "send_result"}
    /\ ~open[sending[c][1].ws]
    /\ sending' = [sending EXCEPT ![c] = <<>>]
    /\ open' = [open EXCEPT ![c] = FALSE]
    /\ IF exc = "WebSocketDisconnect"
       THEN /\ active_connections' = disconnect(active_connections, session_id[c])
            /\ pc' = [pc EXCEPT ![c] = "closed"]
            /\ UNCHANGED error
       ELSE /\ pc' = [pc EXCEPT ![c] = "raised"]
            /\ error' = [error EXCEPT ![c] = exc]
            /\ UNCHANGED active_connections
    /\ UNCHANGED <<log, clock, session_id, inbox, result, delivered, calls,
                   served, arrivals, connects, events, ops, last, turn>>

\* the loop body with respond written as a coroutine that awaits between
\* its two log_message calls (pc "respond": the task is suspended there)
Receive_await_between(c, fail, adv) ==
    /\ fail = "none" /\ adv = 0
    /\ inbox[c] # <<>>
    /\ LET message == frame_message(Head(inbox[c]).data)
           intent  == detect_intent(message)
           reply   == INTENT_HANDLERS(intent.intent, message)
           res     == [reply |-> reply, intent |-> intent, timestamp |-> clock]
           ws      == send_personal_message(active_connections, session_id[c])
       IN  \/ /\ pc[c] = "receive"
              /\ log' = log_message(log, session_id[c], "user", message, clock)
              /\ pc' = [pc EXCEPT ![c] = "respond"]
              /\ UNCHANGED <<result, sending, inbox, served>>
           \/ /\ pc[c] = "respond"
              /\ log' = log_message(log, session_id[c], "bot", reply, clock)
              /\ result' = [result EXCEPT ![c] = <<res>>]
              /\ IF ws = <<>>
                 THEN /\ pc' = [pc EXCEPT ![c] = "receive"]
                      /\ UNCHANGED sending
                 ELSE /\ pc' = [pc EXCEPT ![c] = "send_result"]
                      /\ sending' = [sending EXCEPT ![c] =
                             <<[ws |-> ws[1], text |-> res,
                                ticket |-> Ticket(ws[1])]>>]
              /\ inbox' = [inbox EXCEPT ![c] = Tail(@)]
              /\ served' = Append(served,
                                  [session_id |-> session_id[c], conn |-> c,
                                   seq |-> Head(inbox[c]).seq])
    /\ UNCHANGED <<active_connections, clock, session_id, open, error,
                   delivered, calls, events, arrivals, connects, ops, last,
                   turn>>

\* receive_text returns the next frame: lines 181-190 up to the await of
\* ws.send_text
Receive(c, fail, adv) ==
    /\ pc[c] = "receive"
    /\ inbox[c] # <<>>
    /\ \E t \in Instants(fail, adv) :
       LET data    == Head(inbox[c]).data
           message == frame_message(data)
           r       == respond(log, message, session_id[c], fail, t[1], t[2], t[3])
           ws      == send_personal_message(active_connections, session_id[c])
       IN  /\ clock' = t[3]
           /\ events' = events + (t[3] - clock)
           /\ log' = r.log
           /\ IF r.result = <<>>
              THEN /\ pc' = [pc EXCEPT ![c] = "raised"]
                   /\ error' = [error EXCEPT ![c] = "sqlite3.Error"]
                   /\ open' = [open EXCEPT ![c] = FALSE]
                   /\ UNCHANGED <<result, sending>>
              ELSE /\ result' = [result EXCEPT ![c] = r.result]
                   /\ UNCHANGED <<error, open>>
                   /\ IF ws = <<>>
                      THEN UNCHANGED <<pc, sending>>
                      ELSE /\ pc' = [pc EXCEPT ![c] = "send_result"]
                           /\ sending' = [sending EXCEPT ![c] =
                                  <<[ws |-> ws[1], text |-> r.result[1],
                                     ticket |-> Ticket(ws[1])]>>]
    /\ inbox' = [inbox EXCEPT ![c] = Tail(@)]
    /\ served' = Append(served,
                        [session_id |-> session_id[c], conn |-> c,
                         seq |-> Head(inbox[c]).seq])
    /\ UNCHANGED <<active_connections, session_id, delivered, calls,
                   arrivals, connects, ops, last, turn>>

\* the except branch with the disconnect recorded in table messages
ReceiveDisconnect_logged(c) ==
    /\ pc[c] = "receive"
    /\ inbox[c] = <<>>
    /\ ~open[c]
    /\ active_connections' = disconnect(active_connections, session_id[c])
    /\ log' = log_message(log, session_id[c], "system", <<>>, clock)
    /\ pc' = [pc EXCEPT ![c] = "closed"]
    /\ UNCHANGED <<clock, session_id, open, inbox, sending, result, error,
                   delivered, calls, served, arrivals, connects, events, ops,
                   last, turn>>

\* receive_text raises WebSocketDisconnect: line 192
ReceiveDisconnect(c) ==
    /\ pc[c] = "receive"
    /\ inbox[c] = <<>>
    /\ ~open[c]
    /\ active_connections' = disconnect(active_connections, session_id[c])
    /\ pc' = [pc EXCEPT ![c] = "closed"]
    /\ UNCHANGED <<log, clock, session_id, open, inbox, sending, result,
                   error, delivered, calls, served, arrivals, connects,
                   events, ops, last, turn>>

\* ------------------------------------------------------------- the clients
\* a frame from the client of c reaches the server
FrameArrive(c, data) ==
    /\ Running(c)
    /\ open[c]
    /\ events < MaxEvents
    /\ events' = events + 1
    /\ inbox' = [inbox EXCEPT ![c] = Append(@, [data |-> data, seq |-> arrivals + 1])]
    /\ arrivals' = arrivals + 1
    /\ UNCHANGED <<active_connections, log, clock, pc, session_id, open,
                   sending, result, error, delivered, calls, served,
                   connects, ops, last, turn>>

\* the client of c closes, or the connection drops
ClientClose(c) ==
    /\ pc[c] \in {"accept", "send_welcome", "receive", "send_result"}
    /\ open[c]
    /\ open' = [open EXCEPT ![c] = FALSE]
    /\ UNCHANGED <<active_connections, log, clock, pc, session_id, inbox,
                   sending, result, error, delivered, calls, served,
                   arrivals, connects, events, ops, last, turn>>

\* ----------------------------------------------------------- chat_endpoint
\* a POST /chat request arrives: the handler suspends in request.json()
ChatArrive(k, body) ==
    /\ calls[k].pc = "idle"
    /\ \A j \in Calls : j < k => calls[j].pc # "idle"
    /\ events < MaxEvents
    /\ events' = events + 1
    /\ calls' = [calls EXCEPT ![k] = [pc |-> "json", body |-> body, seq |-> arrivals + 1]]
    /\ arrivals' = arrivals + 1
    /\ UNCHANGED <<active_connections, log, clock, pc, session_id, open,
                   inbox, sending, result, error, delivered, served,
                   connects, ops, last, turn>>

\* request.json() returns: lines 149-152
Chat(k, fail, adv) ==
    /\ calls[k].pc = "json"
    /\ \E t \in Instants(fail, adv) :
       LET body == calls[k].body
           r    == respond(log, body_message(body), body_session_id(body),
                           fail, t[1], t[2], t[3])
       IN  /\ clock' = t[3]
           /\ events' = events + (t[3] - clock)
           /\ log' = r.log
           /\ calls' = [calls EXCEPT ![k] =
                  IF r.result = <<>>
                  THEN [pc |-> "raised", body |-> body, seq |-> calls[k].seq]
                  ELSE [pc |-> "done", body |-> body, seq |-> calls[k].seq,
                        res |-> r.result[1]]]
           /\ served' = Append(served,
                  [session_id |-> body_session_id(body), conn |-> 0,
                   seq |-> calls[k].seq])
    /\ UNCHANGED <<active_connections, pc, session_id, open, inbox, sending,
                   result, error, delivered, arrivals, connects, ops, last,
                   turn>>

\* ------------------------------------- the ConnectionManager driven directly
\* every call below runs to its end before the next is made; handles are
\* accepted, open WebSockets
Payloads == { WelcomeText(s) : s \in Sessions }

\* await manager.connect(websocket, session_id)
ManagerConnect(ws, s) ==
    /\ ops < MaxOps
    /\ ops' = ops + 1
    /\ active_connections' = connect(active_connections, ws, s)
    /\ last' = [op |-> "connect", session_id |-> s,
                before |-> send_personal_message(active_connections, s)]
    /\ UNCHANGED <<log, clock, pc, session_id, open, inbox, sending, result,
                   error, delivered, calls, events, arrivals, connects,
                   served, turn>>

\* manager.disconnect(session_id)
ManagerDisconnect(s) ==
    /\ ops < MaxOps
    /\ ops' = ops + 1
    /\ active_connections' = disconnect(active_connections, s)
    /\ last' = [op |-> "disconnect", session_id |-> s,
                before |-> send_personal_message(active_connections, s)]
    /\ UNCHANGED <<log, clock, pc, session_id, open, inbox, sending, result,
                   error, delivered, calls, events, arrivals, connects,
                   served, turn>>

\* await manager.send_personal_message(message, session_id)
ManagerSend(s, message) ==
    /\ ops < MaxOps
    /\ ops' = ops + 1
    /\ LET ws == send_personal_message(active_connections, s)
       IN  /\ delivered' =
                 IF ws = <<>> THEN delivered
                 ELSE [delivered EXCEPT ![ws[1]] =
                          Append(@, [text |-> message, from |-> 0])]
           /\ last' = [op |-> "send", session_id |-> s, before |-> ws]
    /\ UNCHANGED <<active_connections, log, clock, pc, session_id, open,
                   inbox, sending, result, error, calls, events, arrivals,
                   connects, served, turn>>

NextManager ==
    \/ \E ws \in Conns, s \in Sessions : ManagerConnect(ws, s)
    \/ \E s \in Sessions : ManagerDisconnect(s)
    \/ \E s \in Sessions, message \in Payloads : ManagerSend(s, message)

\* ------------------------------ detect_intent and the handlers on their own
InitTurn ==
    /\ InitApp
    /\ turn \in { [pc |-> "input", text |-> t] : t \in Texts }

\* intent = detect_intent(message)
DetectIntent ==
    /\ turn.pc = "input"
    /\ turn' = [pc |-> "detected", text |-> turn.text,
                intent |-> detect_intent(turn.text)]
    /\ UNCHANGED <<active_connections, log, clock, pc, session_id, open,
                   inbox, sending, result, error, delivered, calls, events,
                   arrivals, connects, ops, last, served>>

\* handler = INTENT_HANDLERS.get(intent["intent"], handle_fallback);
\* reply = handler(message, context)
Reply ==
    /\ turn.pc = "detected"
    /\ turn' = [pc |-> "replied", text |-> turn.text, intent |-> turn.intent,
                reply |-> INTENT_HANDLERS(turn.intent.intent, turn.text)]
    /\ UNCHANGED <<active_connections, log, clock, pc, session_id, open,
                   inbox, sending, result, error, delivered, calls, events,
                   arrivals, connects, ops, last, served>>

\* INTENT_HANDLERS.get(label, handle_fallback)(text, context) for any label
Dispatch(label) ==
    /\ turn.pc = "input"
    /\ turn' = [pc |-> "dispatched", text |-> turn.text, label |-> label,
                reply |-> INTENT_HANDLERS(label, turn.text)]
    /\ UNCHANGED <<active_connections, log, clock, pc, session_id, open,
                   inbox, sending, result, error, delivered, calls, events,
                   arrivals, connects, ops, last, served>>

NextTurn ==
    \/ DetectIntent
    \/ Reply
    \/ \E label \in Labels : Dispatch(label)

\* the stream tasks and their clients
NextStream ==
    \/ \E c \in Conns, s \in Sessions : Open(c, s)
    \/ \E c \in Conns : Accept(c)
    \/ \E c \in Conns : AcceptFault(c)
    \/ \E c \in Conns : SendDone(c)
    \/ \E c \in Conns, exc \in {"WebSocketDisconnect", "RuntimeError"} : SendFault(c, exc)
    \/ \E c \in Conns, fail \in LogFailures : Receive(c, fail, 0)
    \/ \E c \in Conns : ReceiveDisconnect(c)
    \/ \E c \in Conns, data \in Frames : FrameArrive(c, data)
    \/ \E c \in Conns : ClientClose(c)

\* the POST /chat requests
NextChat ==
    \/ \E k \in Calls, body \in Bodies : ChatArrive(k, body)
    \/ \E k \in Calls, fail \in LogFailures : Chat(k, fail, 0)

\* the POST /chat requests while the clock runs: it may advance between the
\* datetime.utcnow() reads of one respond call (each tick is an event)
NextChatClock ==
    \/ \E k \in Calls, body \in Bodies : ChatArrive(k, body)
    \/ \E k \in Calls, fail \in LogFailures, adv \in 0..(MaxEvents - events) :
          Chat(k, fail, adv)

Next == NextStream \/ NextChat

\* the whole application while the clock stands still
Spec == Init /\ [][Next]_vars

\* the stream endpoint alone: no POST /chat request is made
SpecStream == Init /\ [][NextStream]_vars

\* the POST /chat endpoint alone: no WebSocket is opened
SpecChat == Init /\ [][NextChat]_vars

\* the POST /chat endpoint alone, with a running clock
SpecChatClock == Init /\ [][NextChatClock]_vars

\* the ConnectionManager alone, driven directly
SpecManager == Init /\ [][NextManager]_vars

\* detect_intent and the handlers alone, on every text of Texts
SpecTurn == InitTurn /\ [][NextTurn]_vars

\* ------------------------------------------------------------- properties
AllSessions == Sessions \cup {"guest"}

\* a delivered frame is a result envelope (the welcome frame has no intent)
IsResult(p) == "intent" \in DOMAIN p.text

\* frames task c has read
FramesRead(c) == Cardinality({ i \in DOMAIN served : served[i].conn = c })

\* result envelopes sent by task c and delivered to the client of d
ResultsFromTo(c, d) ==
    Cardinality({ i \in DOMAIN delivered[d] :
                    IsResult(delivered[d][i]) /\ delivered[d][i].from = c })

\* the registry holds, for the session id of c, the handle of a connection
\* that connected after c
Superseded(c) ==
    /\ session_id[c] \in DOMAIN active_connections
    /\ active_connections[session_id[c]] # c
    /\ \E i, j \in DOMAIN connects :
          i < j /\ connects[i] = c /\ connects[j] = active_connections[session_id[c]]

\* C1: the registry is a map from session id to one handle; a connect for
\* a session id registers the connecting handle for it, whatever was
\* registered before, and leaves the other ids alone, and a disconnect of an
\* id leaves that id absent and the other ids alone.
C1_OneHandlePerSession ==
    [][ \A s \in Sessions :
          /\ \A ws \in Conns :
                ManagerConnect(ws, s) =>
                    /\ DOMAIN active_connections' =
                           DOMAIN active_connections \cup {s}
                    /\ active_connections'[s] = ws
                    /\ \A r \in DOMAIN active_connections \ {s} :
                          active_connections'[r] = active_connections[r]
          /\ ManagerDisconnect(s) =>
                /\ DOMAIN active_connections' = DOMAIN active_connections \ {s}
                /\ \A r \in DOMAIN active_connections' :
                      active_connections'[r] = active_connections[r] ]_vars

\* a connect has just been made for a session id that another handle was
\* registered for, and the registered handle is the one that connected last
C1_Witness ==
    /\ last.op = "connect"
    /\ last.before # <<>>
    /\ active_connections[last.session_id] # last.before[1]

\* C2: every result envelope is delivered to the connection whose task
\* produced it, that is the connection on which its frame arrived.
C2_ResultToOrigin ==
    \A c \in Conns : \A i \in DOMAIN delivered[c] :
        IsResult(delivered[c][i]) => delivered[c][i].from = c

\* C3: a task whose handle has been replaced in the registry sends nothing
\* when it answers a frame: no send is started and the task goes on.
C3_SupersededSendNoOp ==
    [][ \A c \in Conns :
          (Superseded(c) /\ Receive(c, "none", 0)) =>
              /\ sending'[c] = <<>>
              /\ pc'[c] = "receive" ]_vars

\* C4: the registry has an entry for s exactly when the connection that
\* connected last with s has not disconnected, and the entry is that
\* connection's handle.
C4_EntryFollowsLatest ==
    \A s \in Sessions :
        LET cs == { i \in DOMAIN connects : session_id[connects[i]] = s }
        IN  IF cs = {}
            THEN s \notin DOMAIN active_connections
            ELSE LET latest == connects[CHOOSE i \in cs : \A j \in cs : j <= i]
                 IN  /\ s \in DOMAIN active_connections <=> pc[latest] # "closed"
                     /\ s \in DOMAIN active_connections =>
                            active_connections[s] = latest

\* C5: once the task of a connection has ended, by WebSocketDisconnect or by
\* any other exception, the registry does not hold that connection's handle.
C5_NoHalfOpenSession ==
    \A c \in Conns :
        pc[c] \in {"closed", "raised"} =>
            ~ ( /\ session_id[c] \in DOMAIN active_connections
                /\ active_connections[session_id[c]] = c )

\* C6: when a task of an open connection is about to read its next frame,
\* its connection has been sent one result envelope for each frame read.
C6_OneResultPerFrame ==
    \A c \in Conns :
        (pc[c] = "receive" /\ open[c]) => ResultsFromTo(c, c) = FramesRead(c)

\* C7: a send for a session id without a registry entry raises nothing,
\* delivers nothing and leaves the registry as it is; a send for a
\* registered id delivers the payload to the registered handle, and to no
\* other.
C7_SendAbsentIsNoOp ==
    [][ \A s \in Sessions, message \in Payloads :
          ManagerSend(s, message) =>
              /\ active_connections' = active_connections
              /\ IF s \in DOMAIN active_connections
                 THEN delivered' =
                        [delivered EXCEPT ![active_connections[s]] =
                            Append(@, [text |-> message, from |-> 0])]
                 ELSE delivered' = delivered ]_vars

\* a send for a session id has reached the handle registered for it, the id
\* has been disconnected, and a second send for it has just found no entry
C7_Witness ==
    /\ last.op = "send"
    /\ last.before = <<>>
    /\ last.session_id \notin DOMAIN active_connections
    /\ \E ws \in Conns :
          /\ Len(delivered[ws]) = 1
          /\ delivered[ws][1].text = WelcomeText(last.session_id)

\* C8: on every registry, disconnect applied twice gives what it gives
\* applied once, and for an absent id it gives the registry back; a
\* disconnect call for an absent id changes nothing.
C8_DisconnectIdempotent ==
    /\ [](\A s \in AllSessions :
            /\ disconnect(disconnect(active_connections, s), s)
                   = disconnect(active_connections, s)
            /\ s \notin DOMAIN active_connections =>
                   disconnect(active_connections, s) = active_connections)
    /\ [][ \A s \in Sessions :
             (ManagerDisconnect(s) /\ s \notin DOMAIN active_connections) =>
                 /\ active_connections' = active_connections
                 /\ delivered' = delivered ]_vars

\* a disconnect has just been called for a session id without an entry,
\* while another id was registered, and the registry is as it was
C8_Witness ==
    /\ last.op = "disconnect"
    /\ last.before = <<>>
    /\ DOMAIN active_connections # {}

\* the rows a successful respond(message, s) adds to the log old, and its
\* envelope env
TwoRows(old, new, s, message, env) ==
    /\ Len(new) = Len(old) + 2
    /\ SubSeq(new, 1, Len(old)) = old
    /\ new[Len(old) + 1].session_id = s
    /\ new[Len(old) + 1].role = "user"
    /\ new[Len(old) + 1].message = message
    /\ new[Len(old) + 2].session_id = s
    /\ new[Len(old) + 2].role = "bot"
    /\ new[Len(old) + 2].message = env.reply

\* C9: a respond call that returns appends two rows for its session id, the
\* user row with the message and then the bot row, whose text is the reply
\* of the envelope: on every log, for the message of every frame and of
\* every request body, and in every POST /chat request that is answered.
C9_TwoRowsPerTurn ==
    /\ [](\A s \in AllSessions :
          \A message \in { frame_message(d) : d \in Frames }
                           \cup { body_message(b) : b \in Bodies } :
             LET r == respond(log, message, s, "none", clock, clock, clock)
             IN  /\ r.result # <<>>
                 /\ TwoRows(log, r.log, s, message, r.result[1]))
    /\ [][ \A k \in Calls :
             Chat(k, "none", 0) =>
                 TwoRows(log, log', body_session_id(calls[k].body),
                         body_message(calls[k].body), calls'[k].res) ]_vars

\* two POST /chat requests have been answered, the second one on a log that
\* held the rows of the first
C9_Witness ==
    /\ \A k \in Calls : calls[k].pc = "done"
    /\ Len(log) = 2 * MaxEvents

NoLogFailure ==
    /\ \A c \in Conns : error[c] # "sqlite3.Error"
    /\ \A k \in Calls : calls[k].pc # "raised"

RowsOf(s) ==
    LET Mine(r) == r.session_id = s
    IN  SelectSeq(log, Mine)

\* C10: while no log append has failed, the rows of each session id
\* alternate user, bot, and respond takes the messages of a session id in
\* the order in which they arrived.
C10_ArrivalOrder ==
    NoLogFailure =>
        /\ \A s \in AllSessions : \A i \in DOMAIN RowsOf(s) :
              RowsOf(s)[i].role = IF i % 2 = 1 THEN "user" ELSE "bot"
        /\ \A i, j \in DOMAIN served :
              (i < j /\ served[i].session_id = served[j].session_id) =>
                  served[i].seq < served[j].seq

\* messages respond is called with: those of the frames and of the bodies
TurnMessages ==
    { frame_message(d) : d \in Frames } \cup { body_message(b) : b \in Bodies }

\* the log new is the log old and one user row of s with the message
UserRowOnly(old, new, s, message) ==
    /\ Len(new) = Len(old) + 1
    /\ SubSeq(new, 1, Len(old)) = old
    /\ new[Len(new)].session_id = s
    /\ new[Len(new)].role = "user"
    /\ new[Len(new)].message = message

\* C11: a respond call in which a log append fails returns no envelope; when
\* the user append fails the log is left as it was, and when the bot append
\* fails the log has gained the user row of the call and nothing else: on
\* every log, for every message, and in every POST /chat request, which
\* then ends with the exception and without a response body.
C11_LogFailureNoEnvelope ==
    /\ [](\A s \in AllSessions : \A message \in TurnMessages :
            LET u == respond(log, message, s, "user", clock, clock, clock)
                b == respond(log, message, s, "bot", clock, clock, clock)
            IN  /\ u.result = <<>>
                /\ u.log = log
                /\ b.result = <<>>
                /\ UserRowOnly(log, b.log, s, message))
    /\ [][ \A k \in Calls :
             /\ Chat(k, "user", 0) =>
                   /\ calls'[k].pc = "raised"
                   /\ "res" \notin DOMAIN calls'[k]
                   /\ log' = log
             /\ Chat(k, "bot", 0) =>
                   /\ calls'[k].pc = "raised"
                   /\ "res" \notin DOMAIN calls'[k]
                   /\ UserRowOnly(log, log', body_session_id(calls[k].body),
                                  body_message(calls[k].body)) ]_vars

\* a POST /chat request has ended with the exception of its bot append, and
\* its user row is the last row of the log
C11_Witness ==
    \E k \in Calls :
        /\ calls[k].pc = "raised"
        /\ log # <<>>
        /\ log[Len(log)].role = "user"
        /\ log[Len(log)].session_id = body_session_id(calls[k].body)
        /\ log[Len(log)].message = body_message(calls[k].body)

\* the text the frame data stands for: the message member when data decodes
\* to a JSON object that has one, and data itself in every other case
FieldOrRawFrame(data) ==
    LET payload == json_loads(data)
    IN  IF /\ payload # <<>>
           /\ payload[1].type = "object"
           /\ "message" \in DOMAIN payload[1].members
        THEN payload[1].members.message
        ELSE data

\* C12: the message a task hands to respond for a frame, which is the text
\* of the user row, is the message member of the frame when the frame is a
\* JSON object that has one, and the whole frame in every other case.
C12_FrameText ==
    [][ \A c \in Conns :
          Receive(c, "none", 0) =>
              log'[Len(log) + 1].message =
                  FieldOrRawFrame(Head(inbox[c]).data) ]_vars

\* the rules in the order of the contract, with their patterns and fixed
\* confidences
RuleOrder ==
    << [label |-> "network_issue",    pattern |-> NetworkPat,     confidence |-> 90],
       [label |-> "account_query",    pattern |-> AccountPat,     confidence |-> 90],
       [label |-> "symptom_check",    pattern |-> SymptomPat,     confidence |-> 90],
       [label |-> "book_appointment", pattern |-> AppointmentPat, confidence |-> 90],
       [label |-> "greeting",         pattern |-> GreetingPat,    confidence |-> 95],
       [label |-> "thanks",           pattern |-> ThanksPat,      confidence |-> 95] >>

\* the rules whose pattern matches the lower-cased, trimmed text
MatchingRules(text) ==
    { i \in DOMAIN RuleOrder :
        re_search(RuleOrder[i].pattern, strip(lower(text))) }

\* C13: for every text detect_intent returns one intent: the label and the
\* confidence of the earliest rule whose pattern matches the lower-cased
\* trimmed text, and fallback with confidence 0.5 when no rule matches.
C13_FirstMatchWins ==
    turn.pc = "detected" =>
        LET hits == MatchingRules(turn.text)
        IN  IF hits = {}
            THEN turn.intent = [intent |-> "fallback", confidence |-> 50]
            ELSE LET first == CHOOSE i \in hits : \A j \in hits : i <= j
                 IN  turn.intent = [intent     |-> RuleOrder[first].label,
                                    confidence |-> RuleOrder[first].confidence]

\* a text that matches the network rule and a later rule has been given the
\* label network_issue
C13_Witness ==
    /\ turn.pc = "detected"
    /\ 1 \in MatchingRules(turn.text)
    /\ Cardinality(MatchingRules(turn.text)) >= 2
    /\ turn.intent.intent = "network_issue"

\* C14: for every label, a key of INTENT_HANDLERS or not, and every text,
\* the dispatch returns a reply that is not empty, and for a label that is
\* no key the reply is what handle_fallback returns for the text.
C14_DispatchTotal ==
    turn.pc = "dispatched" =>
        /\ turn.reply # ""
        /\ turn.label \notin Registered => turn.reply = handle_fallback(turn.text)

\* a text has been dispatched under a label that is no key of
\* INTENT_HANDLERS, and the reply is the fallback text
C14_Witness ==
    /\ turn.pc = "dispatched"
    /\ turn.label \notin Registered
    /\ turn.text # <<>>
    /\ turn.reply = FallbackReply

\* the characters of phrase occur, one after the other, somewhere in text
Contains(phrase, text) ==
    \E i \in 1..(Len(text) - Len(phrase) + 1) :
        SubSeq(text, i, i + Len(phrase) - 1) = phrase

\* C15 as stated: every message that contains the phrase no signal is
\* labelled network_issue, and the reply of its turn is the no-signal text.
C15_NoSignalAnywhere ==
    (turn.pc = "replied" /\ Contains(Str_no_signal, turn.text)) =>
        /\ turn.intent.intent = "network_issue"
        /\ turn.reply = NoSignalReply

\* C15 amended: every message that contains no signal as whole words, in any
\* letter case (not directly preceded or followed by a letter, a digit or an
\* underscore), is labelled network_issue, and the reply of its turn is the
\* no-signal text, not the slow-data text and not the describe-the-problem
\* prompt.
C15_NoSignalWholeWords ==
    (turn.pc = "replied" /\ re_search({Str_no_signal}, lower(turn.text))) =>
        /\ turn.intent.intent = "network_issue"
        /\ turn.reply = NoSignalReply
        /\ turn.reply # SlowDataReply
        /\ turn.reply # DescribeNetworkReply

\* a message with no signal as whole words, in upper case, and with a word of
\* the slow-data pattern, has been answered with the no-signal text
C15_Witness ==
    /\ turn.pc = "replied"
    /\ re_search({Str_no_signal}, lower(turn.text))
    /\ ~ Contains(Str_no_signal, turn.text)
    /\ re_search(SlowPat, lower(turn.text))
    /\ turn.reply = NoSignalReply

\* frames delivered to the client of c that are not result envelopes
WelcomesTo(c) ==
    Cardinality({ i \in DOMAIN delivered[c] : ~ IsResult(delivered[c][i]) })

\* C16: the first frame delivered to a connection is the welcome envelope of
\* its own session id, sent by its own task after manager.connect took the
\* connection; no second welcome envelope is delivered to it; and a task
\* that has gone on to read frames has had its welcome envelope delivered.
C16_WelcomeFirst ==
    \A c \in Conns :
        /\ delivered[c] # <<>> =>
              /\ delivered[c][1].text = WelcomeText(session_id[c])
              /\ delivered[c][1].from = c
              /\ \E i \in DOMAIN connects : connects[i] = c
        /\ WelcomesTo(c) <= 1
        /\ pc[c] \in {"receive", "send_result"} => WelcomesTo(c) = 1

\* a connection has been delivered its welcome envelope and then a result
\* envelope, while another connection of the same session id was open
C16_Witness ==
    \E c, d \in Conns :
        /\ c # d
        /\ session_id[c] = session_id[d]
        /\ Len(connects) = 2
        /\ Len(delivered[c]) = 2
        /\ ~ IsResult(delivered[c][1])
        /\ IsResult(delivered[c][2])

\* C17: no step changes or removes a row of the log or moves it: the log
\* after a step begins with the log before it; and the ids of the rows
\* increase strictly in the order of the rows.
C17_AppendOnly ==
    /\ [][ /\ Len(log') >= Len(log)
           /\ \A i \in DOMAIN log :
                 /\ log'[i].id = log[i].id
                 /\ log'[i].session_id = log[i].session_id
                 /\ log'[i].role = log[i].role
                 /\ log'[i].message = log[i].message ]_vars
    /\ [](\A i, j \in DOMAIN log : i < j => log[i].id < log[j].id)

\* the log holds the rows of two turns of one session id, and the rows of
\* the first turn are still its first rows
C17_Witness ==
    /\ Len(log) = 4
    /\ Len(served) = 2
    /\ log[1].session_id = log[3].session_id
    /\ log[1].role = "user" /\ log[2].role = "bot"
    /\ log[1].id < log[4].id

\* C18: whatever the order in which the stream tasks and the POST /chat
\* calls take their turns, every bot row of the log comes directly after
\* the user row of its own turn: the row before it is a user row of the same
\* session id, it has the next id, and the bot row holds the reply to the
\* message of that user row.
C18_TurnRowsAdjacent ==
    \A i \in DOMAIN log :
        log[i].role = "bot" =>
            /\ i > 1
            /\ log[i - 1].role = "user"
            /\ log[i - 1].session_id = log[i].session_id
            /\ log[i - 1].id + 1 = log[i].id
            /\ log[i].message =
                   INTENT_HANDLERS(detect_intent(log[i - 1].message).intent,
                                   log[i - 1].message)

\* a stream frame and a POST /chat request were both waiting, respond took
\* them against the order of their arrival, and the log holds the two rows
\* of the one turn and then the two rows of the other
C18_Witness ==
    /\ Len(served) = 2
    /\ served[1].seq > served[2].seq
    /\ served[1].conn # served[2].conn
    /\ Len(log) = 4
    /\ log[2].role = "bot" /\ log[4].role = "bot"

\* C19: a respond call, made by a POST /chat request or for a stream frame,
\* whether it returns or raises, leaves the registry as it is and delivers
\* no frame to any connection, and in a POST /chat request no send is
\* started either; the steps of connect, of disconnect and of a send leave
\* the log as it is.
C19_RoutingAndLoggingApart ==
    [][ /\ \A k \in Calls, fail \in LogFailures :
              Chat(k, fail, 0) =>
                  /\ active_connections' = active_connections
                  /\ delivered' = delivered
                  /\ sending' = sending
        /\ \A c \in Conns, fail \in LogFailures :
              Receive(c, fail, 0) =>
                  /\ active_connections' = active_connections
                  /\ delivered' = delivered
        /\ \A c \in Conns :
              ( \/ Accept(c)
                \/ SendDone(c)
                \/ SendFault(c, "WebSocketDisconnect")
                \/ SendFault(c, "RuntimeError")
                \/ ReceiveDisconnect(c) ) => log' = log ]_vars

\* a POST /chat request for a session id has been answered while a
\* connection was registered for that id: the connection has been sent its
\* welcome envelope and nothing else; and another connection has
\* disconnected since, with the two rows of the turn still the log
C19_Witness ==
    \E k \in Calls, c, d \in Conns :
        /\ calls[k].pc = "done"
        /\ session_id[c] = body_session_id(calls[k].body)
        /\ session_id[c] \in DOMAIN active_connections
        /\ active_connections[session_id[c]] = c
        /\ Len(delivered[c]) = 1
        /\ pc[d] = "closed"
        /\ Len(log) = 2

\* C20: the user row, the bot row and the envelope of one successful
\* respond call carry the same timestamp, also when the clock advances while
\* the call runs.
C20_SingleInstant ==
    [][ \A k \in Calls :
          (calls[k].pc = "json" /\ calls'[k].pc = "done") =>
              /\ log'[Len(log) + 1].timestamp = log'[Len(log) + 2].timestamp
              /\ log'[Len(log) + 2].timestamp = calls'[k].res.timestamp ]_vars

====
